---- MODULE Spec2Model ----
(***************************************************************************)
(* The checkout handler of src/server.js (app.post('/api/checkout')) as a  *)
(* state machine.  One action per suspend point (await) of the handler:    *)
(* the code between two awaits runs to completion on the event loop, so    *)
(* each action is the store operation awaited plus the synchronous code    *)
(* that follows it up to the next await.                                   *)
(*                                                                         *)
(* The relational store is the external collaborator of the handler.  Its  *)
(* model: writes of an open transaction are invisible to other             *)
(* transactions until commit; an INSERT that collides on users.email with  *)
(* an uncommitted row of another transaction waits for it; a collision     *)
(* with a committed row is a duplicate-key error; AUTO_INCREMENT ids are   *)
(* never reused; a connection lost during a transaction aborts it.         *)
(*                                                                         *)
(* Any awaited pool or connection call may reject, and res.json may throw; *)
(* MaxFaults bounds how many of these happen in one run.                   *)
(*                                                                         *)
(* JavaScript numbers are modelled as exact multiples of 1/Scale, or NaN.  *)
(* Binary floating-point rounding drift is outside the model.              *)
(***************************************************************************)
EXTENDS Integers, Sequences, FiniteSets, TLC

\* ------------------------------------------------------------------ bounds
NReq == 2
MaxItems == 2
MaxFaults == 1

Reqs == 1..NReq

\* ------------------------------------------------------ program constants
ConnectionLimit == 10
Scale == 200
Null == 0

\* --------------------------------------------------- JavaScript numbers
Num(x) == [nan |-> FALSE, n |-> x]
NaN == [nan |-> TRUE, n |-> 0]
One == Num(Scale)
Zero == Num(0)

JsAdd(a, b) == IF a.nan \/ b.nan THEN NaN ELSE Num(a.n + b.n)
JsSub(a, b) == IF a.nan \/ b.nan THEN NaN ELSE Num(a.n - b.n)
JsMul(a, b) == IF a.nan \/ b.nan THEN NaN ELSE Num((a.n * b.n) \div Scale)
\* Math.max / Math.min: NaN if any argument is NaN
MathMax(a, b) == IF a.nan \/ b.nan THEN NaN ELSE IF a.n >= b.n THEN a ELSE b
MathMin(a, b) == IF a.nan \/ b.nan THEN NaN ELSE IF a.n <= b.n THEN a ELSE b
\* a >= b: false when either side is NaN
JsGe(a, b) == ~a.nan /\ ~b.nan /\ a.n >= b.n
IsInteger(a) == ~a.nan /\ a.n % Scale = 0

\* JavaScript values a JSON body can carry in the qty field
Undefined == [t |-> "undefined", v |-> Zero, s |-> ""]
JsNum(x) == [t |-> "number", v |-> Num(x), s |-> ""]
JsStr(str) == [t |-> "string", v |-> Zero, s |-> str]

\* Number(string)
StrToNumber(str) ==
  CASE str = "" -> Zero
    [] str = "3" -> Num(3 * Scale)
    [] OTHER -> NaN

\* Number(v)
ToNumber(v) ==
  CASE v.t = "undefined" -> NaN
    [] v.t = "number" -> v.v
    [] OTHER -> StrToNumber(v.s)

Truthy(v) ==
  CASE v.t = "undefined" -> FALSE
    [] v.t = "number" -> ~v.v.nan /\ v.v.n # 0
    [] OTHER -> v.s # ""

\* it.qty || 1
OrOne(v) == IF Truthy(v) THEN v ELSE JsNum(Scale)

\* const qty = Math.max(1, Number(it.qty || 1))
CoerceQty(v) == MathMax(One, ToNumber(OrOne(v)))

\* Math.round(subtotal * (value/100) * 100) / 100, half rounded towards +infinity
PercentOf(sub, value) ==
  IF sub.nan \/ value.nan THEN NaN
  ELSE Num((Scale \div 100) * ((2 * sub.n * value.n + Scale * Scale) \div (2 * Scale * Scale)))

\* Number(row.price): a DECIMAL(_,2) column, held here in cents
PriceToNumber(cents) == Num(cents * (Scale \div 100))

\* ------------------------------------------------------------ the store
\* product_variants JOIN products: id -> (sku, grams); prices are state
VariantIds == {1, 2}
Catalog == [v \in VariantIds |-> IF v = 1 THEN [sku |-> "ABC", grams |-> 500]
                                          ELSE [sku |-> "ABC", grams |-> 250]]
PriceMenu == {999, 2500}
\* the variants another writer reprices while checkouts run
RepricedVariants == {1}

\* coupons: code -> row; value and min_subtotal in currency units, valid is
\* the store's (expires_at IS NULL OR expires_at > NOW())
CouponRow(type, value, min, active, valid) ==
  [discount_type |-> type, value |-> value, min_subtotal |-> min,
   is_active |-> active, valid |-> valid]
CouponCodes == {"SAVE10", "FIXED30", "OFF", "OLD", "BIG", "NEG", "P150"}
Coupons ==
  [c \in CouponCodes |->
     CASE c = "SAVE10" -> CouponRow("percent", 10, 0, 1, 1)
       [] c = "FIXED30" -> CouponRow("fixed", 30, 0, 1, 1)
       [] c = "OFF" -> CouponRow("percent", 10, 0, 0, 1)
       [] c = "OLD" -> CouponRow("fixed", 5, 0, 1, 0)
       [] c = "BIG" -> CouponRow("fixed", 5, 1000, 1, 1)
       [] c = "NEG" -> CouponRow("fixed", -5, 0, 1, 1)
       [] OTHER -> CouponRow("percent", 150, 0, 1, 1)]

\* Number(c[0].value), Number(c[0].min_subtotal)
DecimalToNumber(units) == Num(units * Scale)

EmptyTx == [users |-> {}, orders |-> {}, order_items |-> {}]

\* ---------------------------------------------------------- the requests
Item(variantId, sku, grams, qty) ==
  [variantId |-> variantId, productSku |-> sku, grams |-> grams, qty |-> qty]
Body(email, shape, list, code) ==
  [email |-> email, items |-> [shape |-> shape, list |-> list], couponCode |-> code]

QtyMenu == {Undefined, JsNum(0), JsNum(-Scale), JsNum(2 * Scale),
            JsNum((5 * Scale) \div 2), JsStr("abc"), JsStr("3")}
GoodItem == Item(1, "", 0, Undefined)
BadItem == Item(9, "", 0, Undefined)
\* the first line item of a priced request
FirstItems == {Item(1, "", 0, q) : q \in QtyMenu}
              \cup {Item(0, "ABC", 250, q) : q \in {Undefined, JsNum(2 * Scale)}}
              \cup {Item(0, "ABC", 100, Undefined)}
RestItems == {Item(2, "", 0, Undefined)}

RECURSIVE Lists(_, _)
Lists(S, n) == IF n = 0 THEN {<<>>}
               ELSE LET shorter == Lists(S, n - 1)
                    IN shorter \cup {Append(l, x) : l \in {m \in shorter : Len(m) = n - 1}, x \in S}

PricedLists == {<<f>> \o r : f \in FirstItems, r \in Lists(RestItems, MaxItems - 1)}
PricedBodies == {Body("", "array", l, c) : l \in PricedLists,
                                           c \in CouponCodes \cup {"", "NOPE"}}

\* carts the validation rejects: items absent, not a list, an empty list
RejectedBodies == {Body("", "undefined", <<>>, ""), Body("", "string", <<>>, ""),
                   Body("a", "array", <<>>, "")}
\* bodies of the concurrent runs: a rejected cart, a cart that resolves and
\* a cart whose last item does not, each as a guest and with an email
ConcurrentBodies ==
  <<Body("a", "array", <<>>, ""),
    Body("", "array", <<GoodItem>>, ""),
    Body("", "array", <<GoodItem, BadItem>>, ""),
    Body("a", "array", <<GoodItem>>, ""),
    Body("a", "array", <<GoodItem, BadItem>>, "")>>

\* ------------------------------------------------------------ responses
NoResponse == [status |-> 0, kind |-> "none", error |-> "", orderId |-> Null,
               subtotal |-> Zero, discount |-> Zero, total |-> Zero]
\* res.status(400|500).json({ ok:false, error })
ErrorJson(status, msg) == [NoResponse EXCEPT !.status = status, !.kind = "json", !.error = msg]
\* res.json({ ok:true, orderId, subtotal, discount, total })
OkJson(o, s, d, t) == [status |-> 200, kind |-> "json", error |-> "", orderId |-> o,
                       subtotal |-> s, discount |-> d, total |-> t]
\* a rejection that leaves the async handler: the framework either never
\* answers or answers with its own default error page
UncaughtResponses == {NoResponse, [NoResponse EXCEPT !.status = 500, !.kind = "default"]}

\* ---------------------------------------------------------------- state
VARIABLES
  req,          \* req.body of each invocation
  pc,           \* the await each invocation is suspended at
  k,            \* position of the running for-loop
  userId, resolved, subtotal, discount, total, orderId,
  e,            \* the error caught
  response,     \* what the caller was answered
  sent,         \* number of responses written
  users, orders, order_items,   \* committed rows
  tx,           \* uncommitted rows of each invocation's transaction
  price,        \* product_variants.price, in cents
  nextUserId, nextOrderId,      \* AUTO_INCREMENT counters
  free,         \* connections left in the pool
  acquired,     \* connections obtained by each invocation
  released,     \* conn.release() calls of each invocation
  rollbacks,    \* conn.rollback() calls of each invocation
  failure,      \* the invocation hit a resolution or store-level failure
  touched,      \* the invocation called the pool or a connection
  usersTouched, \* the invocation queried the users table
  faults        \* injected failures so far

locals == <<k, userId, resolved, subtotal, discount, total, orderId>>
store == <<users, orders, order_items, tx, price, nextUserId, nextOrderId>>
ghost == <<acquired, released, rollbacks, failure, touched, usersTouched>>
vars == <<req, pc, e, response, sent, free, faults, locals, store, ghost>>

InitState ==
  /\ pc = [i \in Reqs |-> "start"]
  /\ k = [i \in Reqs |-> 1]
  /\ userId = [i \in Reqs |-> Null]
  /\ resolved = [i \in Reqs |-> <<>>]
  /\ subtotal = [i \in Reqs |-> Zero]
  /\ discount = [i \in Reqs |-> Zero]
  /\ total = [i \in Reqs |-> Zero]
  /\ orderId = [i \in Reqs |-> Null]
  /\ e = [i \in Reqs |-> ""]
  /\ response = [i \in Reqs |-> NoResponse]
  /\ sent = [i \in Reqs |-> 0]
  /\ users = {} /\ orders = {} /\ order_items = {}
  /\ tx = [i \in Reqs |-> EmptyTx]
  /\ price = [v \in VariantIds |-> IF v = 1 THEN 2500 ELSE 999]
  /\ nextUserId = 1 /\ nextOrderId = 1
  /\ free = ConnectionLimit
  /\ acquired = [i \in Reqs |-> 0]
  /\ released = [i \in Reqs |-> 0]
  /\ rollbacks = [i \in Reqs |-> 0]
  /\ failure = [i \in Reqs |-> FALSE]
  /\ touched = [i \in Reqs |-> FALSE]
  /\ usersTouched = [i \in Reqs |-> FALSE]
  /\ faults = 0

\* Either every invocation carries one of the concurrent bodies (invocations
\* are interchangeable, so the bodies are dealt in a fixed order), or the
\* first carries a priced body (quantities, coupons) next to rejected carts,
\* or every invocation carries a cart the validation rejects.
Init ==
  /\ InitState
  /\ \/ \E f \in [Reqs -> 1..Len(ConcurrentBodies)] :
          /\ \A i \in Reqs \ {1} : f[i - 1] <= f[i]
          /\ req = [i \in Reqs |-> ConcurrentBodies[f[i]]]
     \/ \E b \in PricedBodies :
          req = [i \in Reqs |-> IF i = 1 THEN b ELSE Body("", "undefined", <<>>, "")]
     \/ req \in [Reqs -> RejectedBodies]

\* ------------------------------------------------------- handler pieces
\* control enters catch (e): await conn.rollback()
Throw(i, msg) ==
  /\ pc' = [pc EXCEPT ![i] = "rollback"]
  /\ e' = [e EXCEPT ![i] = msg]

\* the awaited store operation rejects
StoreFails(i) ==
  /\ faults < MaxFaults
  /\ faults' = faults + 1
  /\ Throw(i, "store error")
  /\ failure' = [failure EXCEPT ![i] = TRUE]

\* variant: the handler settles without conn.release()
NoRelease(i) ==
  /\ pc' = [pc EXCEPT ![i] = "done"]
  /\ UNCHANGED <<free, released>>

\* finally { conn.release() } and the handler's promise settles
Release(i) ==
  /\ free' = free + 1
  /\ released' = [released EXCEPT ![i] = @ + 1]
  /\ pc' = [pc EXCEPT ![i] = "done"]

Answer(i, r) ==
  /\ response' = [response EXCEPT ![i] = r]
  /\ sent' = [sent EXCEPT ![i] = IF r.kind = "none" THEN @ ELSE @ + 1]

\* variant: the discount is not subtracted
TotalWithoutDiscount(sub, disc) == MathMax(Zero, sub)

\* const total = Math.max(0, subtotal - discount)
Total(sub, disc) == MathMax(Zero, JsSub(sub, disc))

\* variant: is_active is not consulted
AppliesIgnoringActive(c, sub) ==
  /\ c.valid # 0
  /\ JsGe(sub, DecimalToNumber(c.min_subtotal))

\* the coupon row applies
Applies(c, sub) ==
  /\ c.is_active # 0
  /\ c.valid # 0
  /\ JsGe(sub, DecimalToNumber(c.min_subtotal))

\* the discount of a coupon row that applies
Discount(c, sub) ==
  MathMin(IF c.discount_type = "percent"
            THEN PercentOf(sub, DecimalToNumber(c.value))
            ELSE DecimalToNumber(c.value),
          sub)

\* the rows the variant query of a line item returns
VariantRows(it) ==
  IF it.variantId # 0
    THEN {v \in VariantIds : v = it.variantId}
    ELSE {v \in VariantIds : Catalog[v].sku = it.productSku /\ Catalog[v].grams = it.grams}

\* const { items = [] } = req.body || {}
Items(body) == IF body.items.shape = "undefined"
                 THEN [shape |-> "array", list |-> <<>>]
                 ELSE body.items
\* variant: the length test is missing
CartIsNotArray(body) == Items(body).shape # "array"

\* !Array.isArray(items) || items.length === 0
CartIsEmpty(body) == Items(body).shape # "array" \/ Len(Items(body).list) = 0

\* variant: the user is resolved whatever the email
AlwaysHasEmail(body) == TRUE

\* if (email)
HasEmail(body) == body.email # ""

\* -------------------------------------------------------------- actions
\* the handler is entered: validation, then pool.getConnection() is called
Receive(i) ==
  /\ pc[i] = "start"
  /\ IF CartIsEmpty(req[i])
       THEN /\ Answer(i, ErrorJson(400, "Cart is empty"))
            /\ pc' = [pc EXCEPT ![i] = "done"]
            /\ UNCHANGED touched
       ELSE /\ pc' = [pc EXCEPT ![i] = "getConnection"]
            /\ touched' = [touched EXCEPT ![i] = TRUE]
            /\ UNCHANGED <<response, sent>>
  /\ UNCHANGED <<req, e, free, faults, locals, store,
                 acquired, released, rollbacks, failure, usersTouched>>

\* const conn = await pool.getConnection()  (outside the try)
GetConnection(i) ==
  /\ pc[i] = "getConnection"
  /\ \/ /\ free > 0
        /\ free' = free - 1
        /\ acquired' = [acquired EXCEPT ![i] = @ + 1]
        /\ pc' = [pc EXCEPT ![i] = "begin"]
        /\ UNCHANGED <<response, sent, faults, failure>>
     \/ /\ faults < MaxFaults
        /\ faults' = faults + 1
        /\ failure' = [failure EXCEPT ![i] = TRUE]
        /\ \E r \in UncaughtResponses : Answer(i, r)
        /\ pc' = [pc EXCEPT ![i] = "done"]
        /\ UNCHANGED <<free, acquired>>
  /\ UNCHANGED <<req, e, locals, store,
                 released, rollbacks, touched, usersTouched>>

\* await conn.beginTransaction()
Begin(i) ==
  /\ pc[i] = "begin"
  /\ \/ /\ pc' = [pc EXCEPT ![i] = IF HasEmail(req[i]) THEN "selectUser" ELSE "resolve"]
        /\ UNCHANGED <<e, faults, failure>>
     \/ StoreFails(i)
  /\ UNCHANGED <<req, response, sent, free, locals, store,
                 acquired, released, rollbacks, touched, usersTouched>>

\* SELECT id FROM users WHERE email=?
SelectUser(i) ==
  /\ pc[i] = "selectUser"
  /\ usersTouched' = [usersTouched EXCEPT ![i] = TRUE]
  /\ \/ /\ LET u == {r \in users \cup tx[i].users : r.email = req[i].email}
           IN IF u # {}
                THEN /\ userId' = [userId EXCEPT ![i] = (CHOOSE r \in u : TRUE).id]
                     /\ pc' = [pc EXCEPT ![i] = "resolve"]
                ELSE /\ pc' = [pc EXCEPT ![i] = "insertUser"]
                     /\ UNCHANGED userId
        /\ UNCHANGED <<e, faults, failure>>
     \/ StoreFails(i) /\ UNCHANGED userId
  /\ UNCHANGED <<req, response, sent, free, store,
                 k, resolved, subtotal, discount, total, orderId,
                 acquired, released, rollbacks, touched>>

\* INSERT INTO users (...): waits while another transaction holds an
\* uncommitted row with the same email; users.email is UNIQUE
InsertUser(i) ==
  /\ pc[i] = "insertUser"
  /\ \/ /\ \A j \in Reqs \ {i} : \A r \in tx[j].users : r.email # req[i].email
        /\ IF \E r \in users : r.email = req[i].email
             THEN /\ Throw(i, "Duplicate entry")
                  /\ failure' = [failure EXCEPT ![i] = TRUE]
                  /\ UNCHANGED <<userId, tx, nextUserId>>
             ELSE /\ tx' = [tx EXCEPT ![i].users =
                              @ \cup {[id |-> nextUserId, email |-> req[i].email, by |-> i]}]
                  /\ nextUserId' = nextUserId + 1
                  /\ userId' = [userId EXCEPT ![i] = nextUserId]
                  /\ pc' = [pc EXCEPT ![i] = "resolve"]
                  /\ UNCHANGED <<e, failure>>
        /\ UNCHANGED faults
     \/ StoreFails(i) /\ UNCHANGED <<userId, tx, nextUserId>>
  /\ UNCHANGED <<req, response, sent, free,
                 users, orders, order_items, price, nextOrderId,
                 k, resolved, subtotal, discount, total, orderId,
                 acquired, released, rollbacks, touched, usersTouched>>

\* one pass of for (const it of items): the variant query and what follows
ResolveItem(i) ==
  /\ pc[i] = "resolve"
  /\ LET items == Items(req[i]).list
         it == items[k[i]]
         rows == VariantRows(it)
     IN \/ /\ IF rows = {}
                THEN /\ Throw(i, "Variant not found")
                     /\ failure' = [failure EXCEPT ![i] = TRUE]
                     /\ UNCHANGED <<k, resolved, subtotal, discount, total>>
                ELSE LET row == CHOOSE v \in rows : TRUE
                         qty == CoerceQty(it.qty)
                         unit == PriceToNumber(price[row])
                         sub == JsAdd(subtotal[i], JsMul(qty, unit))
                     IN /\ subtotal' = [subtotal EXCEPT ![i] = sub]
                        /\ resolved' = [resolved EXCEPT ![i] =
                                          Append(@, [variantId |-> row, qty |-> qty, unit |-> unit])]
                        /\ IF k[i] < Len(items)
                             THEN /\ k' = [k EXCEPT ![i] = @ + 1]
                                  /\ UNCHANGED <<pc, total>>
                             ELSE IF req[i].couponCode # ""
                               THEN /\ pc' = [pc EXCEPT ![i] = "coupon"]
                                    /\ UNCHANGED <<k, total>>
                               ELSE /\ total' = [total EXCEPT ![i] = Total(sub, discount[i])]
                                    /\ pc' = [pc EXCEPT ![i] = "insertOrder"]
                                    /\ UNCHANGED k
                        /\ UNCHANGED <<e, failure, discount>>
           /\ UNCHANGED faults
        \/ StoreFails(i) /\ UNCHANGED <<k, resolved, subtotal, discount, total>>
  /\ UNCHANGED <<req, response, sent, free, store, userId, orderId,
                 acquired, released, rollbacks, touched, usersTouched>>

\* SELECT ... FROM coupons WHERE code=?, the discount and the total
Coupon(i) ==
  /\ pc[i] = "coupon"
  /\ \/ LET c == IF req[i].couponCode \in CouponCodes
                   THEN {Coupons[req[i].couponCode]} ELSE {}
            d == IF c # {} /\ Applies(CHOOSE r \in c : TRUE, subtotal[i])
                   THEN Discount(CHOOSE r \in c : TRUE, subtotal[i])
                   ELSE discount[i]
        IN /\ discount' = [discount EXCEPT ![i] = d]
           /\ total' = [total EXCEPT ![i] = Total(subtotal[i], d)]
           /\ pc' = [pc EXCEPT ![i] = "insertOrder"]
           /\ UNCHANGED <<e, faults, failure>>
     \/ StoreFails(i) /\ UNCHANGED <<discount, total>>
  /\ UNCHANGED <<req, response, sent, free, store,
                 k, userId, resolved, subtotal, orderId,
                 acquired, released, rollbacks, touched, usersTouched>>

\* the store refuses a statement whose numeric parameter is NaN
StoreRejects(x) == x.nan

\* INSERT INTO orders (user_id, session_id, total_amount, status, payment_reference)
InsertOrder(i) ==
  /\ pc[i] = "insertOrder"
  /\ \/ /\ IF StoreRejects(total[i])
             THEN /\ Throw(i, "Unknown column 'NaN'")
                  /\ failure' = [failure EXCEPT ![i] = TRUE]
                  /\ UNCHANGED <<k, orderId, tx, nextOrderId>>
             ELSE /\ orderId' = [orderId EXCEPT ![i] = nextOrderId]
                  /\ nextOrderId' = nextOrderId + 1
                  /\ tx' = [tx EXCEPT ![i].orders =
                              @ \cup {[id |-> nextOrderId, user_id |-> userId[i],
                                       total_amount |-> total[i], by |-> i]}]
                  /\ k' = [k EXCEPT ![i] = 1]
                  /\ pc' = [pc EXCEPT ![i] = "insertItem"]
                  /\ UNCHANGED <<e, failure>>
        /\ UNCHANGED faults
     \/ StoreFails(i) /\ UNCHANGED <<k, orderId, tx, nextOrderId>>
  /\ UNCHANGED <<req, response, sent, free,
                 users, orders, order_items, price, nextUserId,
                 userId, resolved, subtotal, discount, total,
                 acquired, released, rollbacks, touched, usersTouched>>

\* one pass of for (const r of resolved): INSERT INTO order_items (...)
InsertItem(i) ==
  /\ pc[i] = "insertItem"
  /\ \/ LET r == resolved[i][k[i]]
        IN /\ tx' = [tx EXCEPT ![i].order_items =
                       @ \cup {[order_id |-> orderId[i], line |-> k[i],
                                product_variant_id |-> r.variantId,
                                quantity |-> r.qty, unit_price |-> r.unit, by |-> i]}]
           /\ IF k[i] < Len(resolved[i])
                THEN k' = [k EXCEPT ![i] = @ + 1] /\ UNCHANGED pc
                ELSE pc' = [pc EXCEPT ![i] = "commit"] /\ UNCHANGED k
           /\ UNCHANGED <<e, faults, failure>>
     \/ StoreFails(i) /\ UNCHANGED <<k, tx>>
  /\ UNCHANGED <<req, response, sent, free,
                 users, orders, order_items, price, nextUserId, nextOrderId,
                 userId, resolved, subtotal, discount, total, orderId,
                 acquired, released, rollbacks, touched, usersTouched>>

\* the store makes the rows of the transaction durable
CommitEffect(i) ==
  /\ users' = users \cup tx[i].users
  /\ orders' = orders \cup tx[i].orders
  /\ order_items' = order_items \cup tx[i].order_items
  /\ tx' = [tx EXCEPT ![i] = EmptyTx]

\* variant: the catch block leaves the transaction to be committed
RollbackCommits(i) == CommitEffect(i)

\* the store drops the rows of the transaction
RollbackEffect(i) ==
  /\ tx' = [tx EXCEPT ![i] = EmptyTx]
  /\ UNCHANGED <<users, orders, order_items>>

\* await conn.commit(); res.json({...}); finally conn.release()
Commit(i) ==
  /\ pc[i] = "commit"
  /\ \/ /\ CommitEffect(i)
        /\ \/ /\ Answer(i, OkJson(orderId[i], subtotal[i], discount[i], total[i]))
              /\ Release(i)
              /\ UNCHANGED <<e, faults>>
           \/ /\ faults < MaxFaults
              /\ faults' = faults + 1
              /\ Throw(i, "send failed")
              /\ UNCHANGED <<response, sent, free, released>>
        /\ UNCHANGED failure
     \/ /\ StoreFails(i)
        /\ UNCHANGED <<response, sent, free, released, users, orders, order_items, tx>>
  /\ UNCHANGED <<req, price, nextUserId, nextOrderId, locals,
                 acquired, rollbacks, touched, usersTouched>>

\* catch (e) { await conn.rollback(); res.status(500).json({...}) } finally
\* { conn.release() }.  A rollback that rejects is a lost connection: the
\* store aborts the transaction, and the rejection leaves the handler.
Rollback(i) ==
  /\ pc[i] = "rollback"
  /\ rollbacks' = [rollbacks EXCEPT ![i] = @ + 1]
  /\ RollbackEffect(i)
  /\ Release(i)
  /\ \/ /\ Answer(i, ErrorJson(500, e[i]))
        /\ UNCHANGED <<faults, failure>>
     \/ \* conn.rollback() rejects: line 166 is skipped
        /\ faults < MaxFaults
        /\ faults' = faults + 1
        /\ failure' = [failure EXCEPT ![i] = TRUE]
        /\ \E r \in UncaughtResponses : Answer(i, r)
     \/ \* res.status(500).json(...) throws
        /\ faults < MaxFaults
        /\ faults' = faults + 1
        /\ UNCHANGED failure
        /\ \E r \in UncaughtResponses : Answer(i, r)
  /\ UNCHANGED <<req, e, price, nextUserId, nextOrderId, locals,
                 acquired, touched, usersTouched>>

\* another writer updates a catalogue price
PriceChange ==
  /\ \E v \in RepricedVariants : \E p \in PriceMenu \ {price[v]} :
       price' = [price EXCEPT ![v] = p]
  /\ UNCHANGED <<req, pc, e, response, sent, free, faults, locals,
                 users, orders, order_items, tx, nextUserId, nextOrderId, ghost>>

Step(i) ==
  \/ Receive(i)
  \/ GetConnection(i)
  \/ Begin(i)
  \/ SelectUser(i)
  \/ InsertUser(i)
  \/ ResolveItem(i)
  \/ Coupon(i)
  \/ InsertOrder(i)
  \/ InsertItem(i)
  \/ Commit(i)
  \/ Rollback(i)

Handlers == \E i \in Reqs : Step(i)

Next == PriceChange \/ Handlers

Spec == Init /\ [][Next]_vars

\* The handlers alone (no step of theirs on the way to conn.release() reads
\* a price another writer could change), each resumed whenever the operation
\* it awaits can settle.
FairSpec == Init /\ [][Handlers]_vars /\ \A i \in Reqs : WF_vars(Step(i))

\* ------------------------------------------------------------ properties
UsersBy(i) == {r \in users : r.by = i}
OrdersBy(i) == {r \in orders : r.by = i}
OrderItemsBy(i) == {r \in order_items : r.by = i}
NonEmptyCart(i) == req[i].items.shape = "array" /\ Len(req[i].items.list) > 0
\* the error caught came from resolution or from the store
FailedBeforeCommit(i) == e[i] \notin {"", "send failed"}

\* C1: the committed rows of an invocation are either none, or exactly its
\* order, one order_items row per requested line item and the user row it
\* inserted; an invocation whose resolution or store operation failed has no
\* committed row.
AllOrNothing ==
  \A i \in Reqs :
    /\ IF OrdersBy(i) = {}
         THEN UsersBy(i) = {} /\ OrderItemsBy(i) = {}
         ELSE /\ Cardinality(OrdersBy(i)) = 1
              /\ Cardinality(OrderItemsBy(i)) = Len(req[i].items.list)
              /\ \A o \in OrdersBy(i) :
                   /\ \A r \in OrderItemsBy(i) : r.order_id = o.id
                   /\ \A u \in UsersBy(i) : u.id = o.user_id
                   /\ req[i].email # "" =>
                        \E u \in users : u.id = o.user_id /\ u.email = req[i].email
    /\ FailedBeforeCommit(i) => UsersBy(i) \cup OrdersBy(i) \cup OrderItemsBy(i) = {}
    /\ pc[i] = "done" => tx[i] = EmptyTx

\* C1 witness: a call inserted a user, then an item failed to resolve, and
\* after the rollback nothing of it is stored
RolledBackAfterUserInsert ==
  \E i \in Reqs :
    /\ pc[i] = "done"
    /\ e[i] = "Variant not found"
    /\ userId[i] # Null
    /\ \A u \in users : u.id # userId[i]
    /\ response[i] = ErrorJson(500, "Variant not found")

RECURSIVE SumOver(_, _)
SumOver(f, S) == IF S = {} THEN 0
                 ELSE LET x == CHOOSE y \in S : TRUE
                      IN f[x] + SumOver(f, S \ {x})

\* C2: an invocation releases no more connections than it obtained, the pool
\* holds the connections not checked out, a finished invocation has released
\* the connection it obtained, and every connection obtained is released.
ReleasedExactlyOnce ==
  /\ [](\A i \in Reqs :
          /\ released[i] <= acquired[i]
          /\ acquired[i] <= 1
          /\ pc[i] = "done" => released[i] = acquired[i])
  /\ [](free = ConnectionLimit - SumOver([i \in Reqs |-> acquired[i] - released[i]], Reqs))
  /\ \A i \in Reqs : (acquired[i] = 1) ~> (released[i] = 1)

\* C2 witness: the rollback (or the sending of the 500) failed and the
\* connection is back in the pool
ReleasedAfterFailedRollback ==
  \E i \in Reqs :
    /\ pc[i] = "done"
    /\ rollbacks[i] = 1
    /\ response[i].kind # "json"
    /\ released[i] = 1
    /\ free = ConnectionLimit

\* C3: no two user rows share an email, and a call whose email another
\* committed checkout carries also commits, with the same user id.
IdempotentUserLookup ==
  /\ \A u, w \in users : u.email = w.email => u = w
  /\ \A i, j \in Reqs :
       ( /\ i # j
         /\ req[i].email # "" /\ req[i].email = req[j].email
         /\ pc[i] = "done" /\ pc[j] = "done"
         /\ response[j].status = 200
         /\ NonEmptyCart(i)
         /\ e[i] \notin {"store error", "Variant not found", "send failed"}
         /\ response[i].kind = "json" )
       => /\ response[i].status = 200
          /\ \A o \in OrdersBy(i) : \A q \in OrdersBy(j) : o.user_id = q.user_id

\* C4: a validated invocation that hit a resolution or store-level failure
\* has rolled back and answered once, with 500 {ok:false, error}.
FailureAnswered500 ==
  \A i \in Reqs :
    (pc[i] = "done" /\ failure[i])
    => /\ rollbacks[i] >= 1
       /\ sent[i] = 1
       /\ response[i] = ErrorJson(500, e[i])

\* C5: a cart that is missing, not a list or empty is answered 400 "Cart is
\* empty"; its invocation never calls the pool or a connection, holds no
\* transaction and no row, and the step that rejects it changes neither the
\* tables nor the pool.
RejectedCartTouchesNothing ==
  /\ [](\A i \in Reqs :
          ~NonEmptyCart(i) =>
            /\ ~touched[i] /\ acquired[i] = 0 /\ ~usersTouched[i]
            /\ tx[i] = EmptyTx
            /\ UsersBy(i) \cup OrdersBy(i) \cup OrderItemsBy(i) = {}
            /\ pc[i] \in {"start", "done"}
            /\ pc[i] = "done" => response[i] = ErrorJson(400, "Cart is empty") /\ sent[i] = 1)
  /\ [][\A i \in Reqs :
          (~NonEmptyCart(i) /\ pc'[i] # pc[i]) => UNCHANGED <<store, free>>]_vars

\* C5 witness: a rejected cart was answered while another invocation holds an
\* open transaction
RejectedWhileOtherRuns ==
  \E i, j \in Reqs :
    /\ ~NonEmptyCart(i)
    /\ response[i].status = 400
    /\ tx[j].orders # {}

\* C6: the discount of a successful checkout lies between 0 and the subtotal.
DiscountWithinSubtotal ==
  \A i \in Reqs :
    response[i].status = 200 =>
      /\ ~response[i].discount.nan
      /\ 0 <= response[i].discount.n
      /\ response[i].discount.n <= response[i].subtotal.n

\* the conditions of C7, read from the coupons table
Eligible(i) ==
  /\ req[i].couponCode # ""
  /\ req[i].couponCode \in CouponCodes
  /\ Coupons[req[i].couponCode].is_active = 1
  /\ Coupons[req[i].couponCode].valid = 1
  /\ ~subtotal[i].nan
  /\ subtotal[i].n >= Coupons[req[i].couponCode].min_subtotal * Scale
PastCoupon(i) == pc[i] \in {"insertOrder", "insertItem", "commit"} \/ response[i].status = 200

GuestCheckout ==
  \A i \in Reqs :
    req[i].email = "" =>
      /\ ~usersTouched[i]
      /\ userId[i] = Null
      /\ tx[i].users = {} /\ UsersBy(i) = {}
      /\ \A o \in tx[i].orders \cup OrdersBy(i) : o.user_id = Null

\* C8 witness: a guest order is committed next to a user row of another call
GuestOrderCommitted ==
  \E i \in Reqs :
    /\ req[i].email = ""
    /\ response[i].status = 200
    /\ \E o \in OrdersBy(i) : o.user_id = Null
    /\ users # {}

LineAmounts(rows) == [r \in rows |-> r.quantity.n * r.unit_price.n]

\* C9: the total of a 200 response is the total_amount of its order row, is
\* max(0, subtotal - discount) and is >= 0, the subtotal being the sum of
\* quantity x unit_price over the order's order_items rows.
TotalIsSubtotalMinusDiscount ==
  \A i \in Reqs :
    response[i].status = 200 =>
      LET r == response[i]
          rows == {x \in order_items : x.order_id = r.orderId}
      IN /\ ~r.subtotal.nan /\ ~r.discount.nan /\ ~r.total.nan
         /\ r.subtotal.n * Scale = SumOver(LineAmounts(rows), rows)
         /\ r.total.n = IF r.subtotal.n - r.discount.n > 0
                          THEN r.subtotal.n - r.discount.n ELSE 0
         /\ r.total.n >= 0
         /\ \E o \in orders : o.id = r.orderId /\ o.total_amount = r.total

\* C9 witness: a discounted order is committed at the price read during
\* resolution although the catalogue price has changed since
DiscountedOrderAtOldPrice ==
  \E i \in Reqs :
    /\ response[i].status = 200
    /\ response[i].discount.n > 0
    /\ response[i].total.n > 0
    /\ \E x \in OrderItemsBy(i) :
         x.unit_price # PriceToNumber(price[x.product_variant_id])

\* C10: every quantity resolved, held in a transaction or committed is an
\* integer >= 1.
QuantityIsPositiveInteger ==
  \A i \in Reqs :
    /\ \A j \in 1..Len(resolved[i]) :
         IsInteger(resolved[i][j].qty) /\ resolved[i][j].qty.n >= Scale
    /\ \A x \in tx[i].order_items \cup OrderItemsBy(i) :
         IsInteger(x.quantity) /\ x.quantity.n >= Scale

====
